---------------------------- MODULE Spec2Model ----------------------------
(***************************************************************************)
(* A model of src/src/datasets/commands/dummy_data.py: the dummy_data      *)
(* command, its shadow download manager and the per-format truncation      *)
(* done by _create_dummy_data.                                             *)
(*                                                                         *)
(* Strings are sequences of one-character strings, so that endswith,       *)
(* split, fnmatch, strip and line iteration are computed as the code       *)
(* computes them.  A path is a sequence of components, each a string.      *)
(***************************************************************************)
EXTENDS Integers, Sequences, FiniteSets, TLC

VARIABLES
    pc,                    \* position of the command / of the call under study
    args,                  \* the command line: DummyDataCommand.__init__
    configs,               \* builder_cls.BUILDER_CONFIGS
    cfg_idx,               \* index of the configuration run() is at (0: none yet)
    mode_log,              \* per started configuration: the mode run() performed
    step_log,              \* steps of _autogenerate_dummy_data for the current configuration
    downloaded_paths,      \* DummyDataGeneratorDownloadManager.downloaded_paths
    expected_dummy_paths,  \* DummyDataGeneratorDownloadManager.expected_dummy_paths
    call_log,              \* per recorded path: the call and the URL it was produced for
    n_calls,               \* number of download calls made so far in this run
    src_fs,                \* the files and directories under the download cache
    dst_files,             \* the files under the dataset's dummy folders
    dst_dirs,              \* the directories under the dataset's dummy folders
    archives,              \* the dummy_data.zip archives made (by dummy data folder)
    call,                  \* the _create_dummy_data call under study (src, dst)
    handler,               \* the branch of _create_dummy_data that ran last
    n_writes,              \* number of destination files written by the last folder generation
    total,                 \* auto_generate_dummy_data_folder's total
    ret,                   \* the last return value
    exc,                   \* the exception that ended the run ("" when none)
    logs,                  \* messages logged or printed
    splits,                \* the splits the dataset's _split_generators returned
    split_idx,             \* number of splits _print_dummy_data_instructions has processed
    split_names,           \* _print_dummy_data_instructions' split_names
    files_to_create        \* _print_dummy_data_instructions' files_to_create

vars == << pc, args, configs, cfg_idx, mode_log, step_log, downloaded_paths,
           expected_dummy_paths, call_log, n_calls, src_fs, dst_files, dst_dirs,
           archives, call, handler, n_writes, total, ret, exc, logs, splits,
           split_idx, split_names, files_to_create >>

None == "None"
\* None where a string of this model (a sequence of characters) is expected
NoneStr == << None >>

-----------------------------------------------------------------------------
(* Bounds of the model.                                                     *)

MaxChars == 5      \* length of a source text, in characters
MaxNLines == 3     \* largest --n_lines tried
MaxList == 3       \* length of a JSON list
MaxCol == 2        \* length of a list held by a JSON dict
MaxNodes == 4      \* number of elements of an XML document
MaxConfigs == 2    \* number of builder configurations
MaxCalls == 2      \* number of download calls of one run
MaxSplits == 2     \* number of splits a dataset returns

-----------------------------------------------------------------------------
(* Strings.                                                                 *)

\* str.endswith
EndsWith(s, suffix) ==
    /\ Len(suffix) <= Len(s)
    /\ SubSeq(s, Len(s) - Len(suffix) + 1, Len(s)) = suffix

\* str.startswith
StartsWith(s, prefix) ==
    /\ Len(prefix) <= Len(s)
    /\ SubSeq(s, 1, Len(prefix)) = prefix

\* str.split(sep) for a one-character separator: the pieces between separators
RECURSIVE SplitFrom(_, _, _)
SplitFrom(s, sep, piece) ==
    IF s = << >> THEN << piece >>
    ELSE IF Head(s) = sep THEN << piece >> \o SplitFrom(Tail(s), sep, << >>)
    ELSE SplitFrom(Tail(s), sep, Append(piece, Head(s)))

Split(s, sep) == SplitFrom(s, sep, << >>)

\* fnmatch.fnmatch(name, pattern) on a POSIX system (normcase is the
\* identity); the patterns of this model use literals, * and ?
RECURSIVE Fnmatch(_, _)
Fnmatch(name, pattern) ==
    IF pattern = << >> THEN name = << >>
    ELSE IF Head(pattern) = "*"
         THEN \/ Fnmatch(name, Tail(pattern))
              \/ (name # << >> /\ Fnmatch(Tail(name), pattern))
         ELSE /\ name # << >>
              /\ (Head(pattern) = "?" \/ Head(pattern) = Head(name))
              /\ Fnmatch(Tail(name), Tail(pattern))

\* os.path.join of the components of a path
RECURSIVE PathStr(_)
PathStr(p) ==
    IF p = << >> THEN << >>
    ELSE IF Len(p) = 1 THEN p[1]
    ELSE p[1] \o << "/" >> \o PathStr(Tail(p))

\* os.path.basename
Basename(p) == p[Len(p)]

\* the directories Path(p).parent.mkdir(parents=True) makes sure exist
ParentDirs(p) == { SubSeq(p, 1, k) : k \in 1..(Len(p) - 1) }

-----------------------------------------------------------------------------
(* Format dispatch of _create_dummy_data.                                   *)

line_by_line_extensions ==
    << << ".", "t", "x", "t" >>, << ".", "c", "s", "v" >>,
       << ".", "j", "s", "o", "n", "l" >>, << ".", "t", "s", "v" >> >>

JsonExt == << ".", "j", "s", "o", "n" >>
XmlExt == << ".", "x", "m", "l" >>

\* lines 100-104: is_line_by_line_text_file
is_line_by_line_text_file(dst_path, match_text_files) ==
    \/ \E i \in 1..Len(line_by_line_extensions) :
          EndsWith(PathStr(dst_path), line_by_line_extensions[i])
    \/ /\ match_text_files # NoneStr
       /\ LET patterns == Split(match_text_files, ",")
          IN  \E i \in 1..Len(patterns) : Fnmatch(Basename(dst_path), patterns[i])

\* a plausible slip: the extension is tested before the text-file patterns
DispatchJsonFirst(dst_path, match_text_files) ==
    IF EndsWith(PathStr(dst_path), JsonExt) THEN "json"
    ELSE IF EndsWith(PathStr(dst_path), XmlExt) THEN "xml"
    ELSE IF is_line_by_line_text_file(dst_path, match_text_files) THEN "lines"
    ELSE "none"

\* lines 105, 112, 133, 162: the branch taken for a source that is a file
Dispatch(dst_path, match_text_files) ==
    IF is_line_by_line_text_file(dst_path, match_text_files) THEN "lines"
    ELSE IF EndsWith(PathStr(dst_path), JsonExt) THEN "json"
    ELSE IF EndsWith(PathStr(dst_path), XmlExt) THEN "xml"
    ELSE "none"

-----------------------------------------------------------------------------
(* Line-based truncation: lines 106-111.                                    *)

IsSpace(c) == c \in { " ", "\n", "\t" }

\* next(src_file) on a non-empty rest of the file: up to and including the
\* first newline, or all of it when it holds none
ReadLine(rest) ==
    IF \E i \in 1..Len(rest) : rest[i] = "\n"
    THEN SubSeq(rest, 1, CHOOSE i \in 1..Len(rest) :
                             /\ rest[i] = "\n"
                             /\ \A j \in 1..(i - 1) : rest[j] # "\n")
    ELSE rest

\* [next(src_file) for _ in range(k)]: next raises StopIteration at the end
\* of the file
RECURSIVE ReadLines(_, _)
ReadLines(rest, k) ==
    IF k <= 0 THEN [raised |-> FALSE, lines |-> << >>]
    ELSE IF rest = << >> THEN [raised |-> TRUE, lines |-> << >>]
    ELSE LET line == ReadLine(rest)
             more == ReadLines(SubSeq(rest, Len(line) + 1, Len(rest)), k - 1)
         IN  [raised |-> more.raised, lines |-> << line >> \o more.lines]

\* "".join(lines)
RECURSIVE Join(_)
Join(lines) == IF lines = << >> THEN << >> ELSE Head(lines) \o Join(Tail(lines))

RECURSIVE LStrip(_)
LStrip(s) == IF s # << >> /\ IsSpace(Head(s)) THEN LStrip(Tail(s)) ELSE s

RECURSIVE RStrip(_)
RStrip(s) ==
    IF s # << >> /\ IsSpace(s[Len(s)]) THEN RStrip(SubSeq(s, 1, Len(s) - 1)) ELSE s

\* a plausible slip: only the end of the text is stripped
StripRightOnly(s) == RStrip(s)

\* str.strip()
Strip(s) == LStrip(RStrip(s))

-----------------------------------------------------------------------------
(* JSON documents, as json.load returns them: a number, a list, or a dict   *)
(* (its pairs in insertion order).  Every value has the same four fields.   *)

JNum(v) == [t |-> "num", n |-> v, l |-> << >>, d |-> << >>]
JList(s) == [t |-> "list", n |-> 0, l |-> s, d |-> << >>]
JDict(pairs) == [t |-> "dict", n |-> 0, l |-> << >>, d |-> pairs]
\* the content of a file that json.load cannot parse
NoJson == [t |-> "invalid", n |-> 0, l |-> << >>, d |-> << >>]

Min(a, b) == IF a <= b THEN a ELSE b
Max(a, b) == IF a >= b THEN a ELSE b

\* a plausible slip: one element too many is kept
SliceOneMore(s, n) == SubSeq(s, 1, Min(Len(s), n + 1))

\* the Python slice s[:n]
SliceTo(s, n) ==
    IF n >= 0 THEN SubSeq(s, 1, Min(n, Len(s)))
    ELSE SubSeq(s, 1, Max(0, Len(s) + n))

\* the Python slice s[n:]
SliceFrom(s, n) ==
    IF n >= 0 THEN SubSeq(s, Min(n, Len(s)) + 1, Len(s))
    ELSE SubSeq(s, Max(0, Len(s) + n) + 1, Len(s))

HasKey(pairs, k) == \E i \in 1..Len(pairs) : pairs[i][1] = k
Lookup(pairs, k) == pairs[CHOOSE i \in 1..Len(pairs) : pairs[i][1] = k][2]

\* lines 114-128: the value json.dump is given, or the exception raised
JsonTruncate(doc, n_lines, json_field) ==
    IF doc.t = "invalid" THEN [exc |-> "JSONDecodeError", out |-> NoJson]
    ELSE IF json_field # None /\ doc.t # "dict"
         THEN [exc |-> "TypeError", out |-> NoJson]
    ELSE IF json_field # None /\ ~HasKey(doc.d, json_field)
         THEN [exc |-> "KeyError", out |-> NoJson]
    ELSE
      LET json_data == IF json_field # None THEN Lookup(doc.d, json_field) ELSE doc
          first_json_data ==
              IF json_data.t = "dict"
              THEN JDict([i \in 1..Len(json_data.d) |->
                            << json_data.d[i][1],
                               JList(SliceTo(json_data.d[i][2].l, n_lines)) >>])
              ELSE JList(SliceTo(json_data.l, n_lines))
      IN  IF json_data.t = "dict"
             /\ \E i \in 1..Len(json_data.d) : json_data.d[i][2].t # "list"
          THEN [exc |-> "ValueError", out |-> NoJson]
          ELSE IF json_data.t \notin { "dict", "list" }
          THEN [exc |-> "TypeError", out |-> NoJson]
          ELSE [exc |-> "",
                out |-> IF json_field # None
                        THEN JDict(<< << json_field, first_json_data >> >>)
                        ELSE first_json_data]

-----------------------------------------------------------------------------
(* XML documents, as ET.parse returns them: elements 1..Len(tag), element 1 *)
(* the root; tag[x] is the tag of x and parent[x] its parent (0 for the     *)
(* root); the children of an element are in the order of their numbers.     *)

\* the content of a file that ET.parse cannot parse
NoXml == [tag |-> << >>, parent |-> << >>]

Elements(tree) == 1..Len(tree.tag)

RECURSIVE SortedSeq(_)
SortedSeq(S) ==
    IF S = {} THEN << >>
    ELSE LET m == CHOOSE x \in S : \A y \in S : x <= y
         IN  << m >> \o SortedSeq(S \ { m })

\* list(element): the children of x, in order
ChildSeq(tree, x) == SortedSeq({ c \in Elements(tree) : tree.parent[c] = x })

\* the elements in the order tree.iter() yields them: document order
RECURSIVE IterFrom(_, _)
IterFrom(tree, xs) ==
    IF xs = << >> THEN << >>
    ELSE << Head(xs) >> \o IterFrom(tree, ChildSeq(tree, Head(xs)))
                        \o IterFrom(tree, Tail(xs))

Iter(tree) == IterFrom(tree, << 1 >>)

\* x and the elements above it
RECURSIVE AncestorsOrSelf(_, _)
AncestorsOrSelf(tree, x) ==
    IF x = 0 THEN {} ELSE { x } \cup AncestorsOrSelf(tree, tree.parent[x])

\* lines 142-146: the tag of the first element, in document order, with a
\* child tagged xml_tag; None when there is none
get_parent_tag(tree, xml_tag) ==
    LET order == Iter(tree)
        has(x) == \E c \in Elements(tree) : tree.parent[c] = x /\ tree.tag[c] = xml_tag
    IN  IF \E i \in 1..Len(order) : has(order[i])
        THEN tree.tag[order[CHOOSE i \in 1..Len(order) :
                                /\ has(order[i])
                                /\ \A j \in 1..(i - 1) : ~has(order[j])]]
        ELSE None

\* lines 151-158: the children removed by the loop over tree.iter(parent_tag).
\* The iterator walks the tree as it is when it gets to an element, so a
\* removed element and the elements below it are not visited.
RECURSIVE RemoveLoop(_, _, _, _, _, _, _)
RemoveLoop(tree, order, xml_tag, parent_tag, n_lines, current, removed) ==
    IF order = << >> THEN removed
    ELSE LET parent == Head(order)
             visited == /\ tree.tag[parent] = parent_tag
                        /\ AncestorsOrSelf(tree, parent) \cap removed = {}
             children == SelectSeq(ChildSeq(tree, parent),
                                   LAMBDA c : tree.tag[c] = xml_tag)
             first_elements == SliceTo(children, n_lines - current)
             children_to_remove == SliceFrom(children, n_lines - current)
         IN  IF visited
             THEN RemoveLoop(tree, Tail(order), xml_tag, parent_tag, n_lines,
                             current + Len(first_elements),
                             removed \cup { children_to_remove[i] :
                                              i \in 1..Len(children_to_remove) })
             ELSE RemoveLoop(tree, Tail(order), xml_tag, parent_tag, n_lines,
                             current, removed)

\* a plausible slip: the count starts again at every parent
RECURSIVE RemoveLoopPerParent(_, _, _, _, _, _, _)
RemoveLoopPerParent(tree, order, xml_tag, parent_tag, n_lines, current, removed) ==
    IF order = << >> THEN removed
    ELSE LET parent == Head(order)
             visited == /\ tree.tag[parent] = parent_tag
                        /\ AncestorsOrSelf(tree, parent) \cap removed = {}
             children == SelectSeq(ChildSeq(tree, parent),
                                   LAMBDA c : tree.tag[c] = xml_tag)
             children_to_remove == SliceFrom(children, n_lines)
         IN  IF visited
             THEN RemoveLoopPerParent(tree, Tail(order), xml_tag, parent_tag, n_lines,
                             current,
                             removed \cup { children_to_remove[i] :
                                              i \in 1..Len(children_to_remove) })
             ELSE RemoveLoopPerParent(tree, Tail(order), xml_tag, parent_tag, n_lines,
                             current, removed)

XmlRemovedPerParent(tree, xml_tag, n_lines) ==
    RemoveLoopPerParent(tree, Iter(tree), xml_tag, get_parent_tag(tree, xml_tag),
                        n_lines, 0, {})

\* lines 148-158: the elements the loop removes from their parents
XmlRemoved(tree, xml_tag, n_lines) ==
    RemoveLoop(tree, Iter(tree), xml_tag, get_parent_tag(tree, xml_tag), n_lines, 0, {})

\* the elements of the document tree.write writes: those not removed and not
\* below a removed element
XmlKept(tree, xml_tag, n_lines) ==
    { x \in Elements(tree) :
        AncestorsOrSelf(tree, x) \cap XmlRemoved(tree, xml_tag, n_lines) = {} }

-----------------------------------------------------------------------------
(* Files.  A source file is given by what the three readers make of its     *)
(* bytes: its text, the document json.load returns (NoJson when it raises)  *)
(* and the tree ET.parse returns (NoXml when it raises).  A destination     *)
(* file is given by what was written to it: a text, a JSON document         *)
(* (json.dump) or the elements left of an XML tree (tree.write).            *)

SrcFile(text, json, xml) == [kind |-> "file", text |-> text, json |-> json, xml |-> xml]
SrcDir == [kind |-> "dir", text |-> << >>, json |-> NoJson, xml |-> NoXml]

TextFile(text) ==
    [kind |-> "text", text |-> text, json |-> NoJson, xml |-> NoXml, kept |-> {}]
JsonFile(doc) ==
    [kind |-> "json", text |-> << >>, json |-> doc, xml |-> NoXml, kept |-> {}]
XmlFile(tree, kept) ==
    [kind |-> "xml", text |-> << >>, json |-> NoJson, xml |-> tree, kept |-> kept]

Put(files, path, content) ==
    [q \in (DOMAIN files) \cup { path } |-> IF q = path THEN content ELSE files[q]]

\* os.path.isfile, os.path.isdir
IsFile(fs, path) == path \in DOMAIN fs /\ fs[path].kind = "file"
IsDir(fs, path) == path \in DOMAIN fs /\ fs[path].kind = "dir"

\* The effect of a call on the destination tree and what it gives back:
\* files, dirs: the destination tree; ret: the value returned (None when the
\* function falls off its end); exc: the exception raised ("" when none);
\* handler: the branch that ran; logs: the messages logged; writes: the
\* number of destination files written completely.
Effect(files, dirs) ==
    [files |-> files, dirs |-> dirs, ret |-> 0, exc |-> "", handler |-> "",
     logs |-> << >>, writes |-> 0]

\* lines 106-111: open(dst_path, "w") makes the file before the lines are read
CreateLines(st, f, dst_path, n_lines) ==
    LET r == ReadLines(f.text, n_lines)
        dirs == st.dirs \cup ParentDirs(dst_path)
    IN  IF r.raised
        THEN [st EXCEPT !.dirs = dirs,
                        !.files = Put(st.files, dst_path, TextFile(<< >>)),
                        !.handler = "lines", !.exc = "StopIteration"]
        ELSE [st EXCEPT !.dirs = dirs,
                        !.files = Put(st.files, dst_path, TextFile(Strip(Join(r.lines)))),
                        !.handler = "lines", !.ret = 1, !.writes = st.writes + 1]

\* lines 113-132
\* a JSON branch that makes the destination directory before it reads the source
CreateJsonMkdirFirst(st, f, dst_path, n_lines, json_field) ==
    LET r == JsonTruncate(f.json, n_lines, json_field)
        dirs == st.dirs \cup ParentDirs(dst_path)
    IN  IF r.exc # ""
        THEN [st EXCEPT !.dirs = dirs, !.handler = "json", !.exc = r.exc]
        ELSE [st EXCEPT !.dirs = dirs,
                        !.files = Put(st.files, dst_path, JsonFile(r.out)),
                        !.handler = "json", !.ret = 1, !.writes = st.writes + 1]

CreateJson(st, f, dst_path, n_lines, json_field) ==
    LET r == JsonTruncate(f.json, n_lines, json_field)
    IN  IF r.exc # ""
        THEN [st EXCEPT !.handler = "json", !.exc = r.exc]
        ELSE [st EXCEPT !.dirs = st.dirs \cup ParentDirs(dst_path),
                        !.files = Put(st.files, dst_path, JsonFile(r.out)),
                        !.handler = "json", !.ret = 1, !.writes = st.writes + 1]

\* lines 134-161
CreateXml(st, f, dst_path, n_lines, xml_tag) ==
    IF xml_tag = None
    THEN [st EXCEPT !.handler = "xml", !.ret = 1,
                    !.logs = Append(st.logs, "warning: xml_tag is None")]
    ELSE LET dirs == st.dirs \cup ParentDirs(dst_path)
         IN  IF f.xml = NoXml
             THEN [st EXCEPT !.dirs = dirs, !.handler = "xml", !.exc = "ParseError"]
             ELSE IF get_parent_tag(f.xml, xml_tag) = None
             THEN [st EXCEPT !.dirs = dirs, !.handler = "xml", !.exc = "AssertionError"]
             ELSE [st EXCEPT !.dirs = dirs,
                             !.files = Put(st.files, dst_path,
                                           XmlFile(f.xml, XmlKept(f.xml, xml_tag, n_lines))),
                             !.handler = "xml", !.ret = 1, !.writes = st.writes + 1]

\* lines 97-166: _create_dummy_data for a source that is a file
CreateFile(st, f, dst_path, a) ==
    LET branch == Dispatch(dst_path, a.match_text_files)
    IN  CASE branch = "lines" -> CreateLines(st, f, dst_path, a.n_lines)
          [] branch = "json" -> CreateJson(st, f, dst_path, a.n_lines, a.json_field)
          [] branch = "xml" -> CreateXml(st, f, dst_path, a.n_lines, a.xml_tag)
          [] OTHER -> [st EXCEPT !.handler = "none", !.ret = 0,
                                 !.logs = Append(st.logs, "warning: couldn't generate")]

\* lines 168-177: the loop over the files os.walk finds, given as their paths
\* relative to src_path in the order they are found; a file whose name
\* starts with "." is skipped
\* line 174: total += the result of the call for one file
WalkAdd(st, one) == IF one.exc = "" THEN [one EXCEPT !.ret = st.ret + one.ret] ELSE one

RECURSIVE WalkFiles(_, _, _, _, _, _)
WalkFiles(st, fs, src_path, dst_path, a, found) ==
    IF found = << >> \/ st.exc # "" THEN st
    ELSE WalkFiles(WalkAdd(st, IF StartsWith(Basename(Head(found)), << "." >>)
                               THEN [st EXCEPT !.ret = 0]
                               ELSE CreateFile([st EXCEPT !.ret = 0],
                                               fs[src_path \o Head(found)],
                                               dst_path \o Head(found), a)),
                   fs, src_path, dst_path, a, Tail(found))

\* the files below a directory, as paths relative to it
FilesBelow(fs, dir) ==
    { SubSeq(q, Len(dir) + 1, Len(q)) :
        q \in { q \in DOMAIN fs : /\ fs[q].kind = "file"
                                  /\ Len(q) > Len(dir)
                                  /\ SubSeq(q, 1, Len(dir)) = dir } }

\* the orders in which os.walk may find the files of a set
Orders(S) ==
    { o \in [1..Cardinality(S) -> S] : \A i, j \in 1..Cardinality(S) : i # j => o[i] # o[j] }

\* lines 88-177: _create_dummy_data; walk gives, for a directory, the order
\* in which os.walk finds its files.  For a source that is neither a file
\* nor a directory the function returns None: handler is "missing" then.
_create_dummy_data(st, fs, src_path, dst_path, a, walk) ==
    IF IsFile(fs, src_path) THEN CreateFile([st EXCEPT !.ret = 0], fs[src_path], dst_path, a)
    ELSE IF IsDir(fs, src_path)
         THEN WalkFiles([st EXCEPT !.ret = 0, !.handler = "dir"], fs, src_path, dst_path, a, walk)
    ELSE [st EXCEPT !.handler = "missing"]

-----------------------------------------------------------------------------
(* One call of _create_dummy_data, on inputs drawn from bounded sets.       *)

S_dummy == << "d", "u", "m", "m", "y" >>
S_dummy_data == << "d", "u", "m", "m", "y", "_", "d", "a", "t", "a" >>
S_downloads == << "d", "o", "w", "n", "l", "o", "a", "d", "s" >>
S_extracted == << "e", "x", "t", "r", "a", "c", "t", "e", "d" >>

N_a_txt == << "a", ".", "t", "x", "t" >>
N_a_csv == << "a", ".", "c", "s", "v" >>
N_a_tsv == << "a", ".", "t", "s", "v" >>
N_a_jsonl == << "a", ".", "j", "s", "o", "n", "l" >>
N_a_json == << "a", ".", "j", "s", "o", "n" >>
N_b_json == << "b", ".", "j", "s", "o", "n" >>
N_a_xml == << "a", ".", "x", "m", "l" >>
N_a_dat == << "a", ".", "d", "a", "t" >>
N_a_bin == << "a", ".", "b", "i", "n" >>
N_txt == << "t", "x", "t" >>
N_hidden == << ".", "D", "S" >>
N_arc_zip == << "a", "r", "c", ".", "z", "i", "p" >>

Chars == { "a", " ", "\n" }
\* the texts of at most n characters
Texts(n) == UNION { [1..k -> Chars] : k \in 0..n }

NLinesChoices == 0..MaxNLines

\* the variables a single call does not use
NoCommand ==
    /\ configs = << >>
    /\ cfg_idx = 0
    /\ mode_log = << >>
    /\ step_log = << >>
    /\ downloaded_paths = << >>
    /\ expected_dummy_paths = << >>
    /\ call_log = << >>
    /\ n_calls = 0
    /\ archives = {}
    /\ total = 0
    /\ splits = << >>
    /\ split_idx = 0
    /\ split_names = << >>
    /\ files_to_create = {}

NoResult ==
    /\ dst_files = << >>
    /\ dst_dirs = {}
    /\ handler = ""
    /\ n_writes = 0
    /\ ret = 0
    /\ exc = ""
    /\ logs = << >>

Args(auto, n, field, tag, match, keep) ==
    [auto_generate |-> auto, n_lines |-> n, json_field |-> field, xml_tag |-> tag,
     match_text_files |-> match, keep_uncompressed |-> keep]

\* the call under study: the source path, the destination path and the
\* source as it was when the call was made
Call(src_path, dst_path, given) == [src |-> src_path, dst |-> dst_path, given |-> given]

SrcPath == << S_downloads, << "f" >> >>

OneFile(f) == [q \in { SrcPath } |-> f]

\* _create_dummy_data(src_path, dst_path, n_lines, json_field, xml_tag, match_text_files)
CallEnds(st) ==
    /\ dst_files' = st.files
    /\ dst_dirs' = st.dirs
    /\ handler' = st.handler
    /\ n_writes' = st.writes
    /\ ret' = st.ret
    /\ exc' = st.exc
    /\ logs' = logs \o st.logs
    /\ pc' = IF st.exc = "" THEN "returned" ELSE "raised"

CallCreateDummyData ==
    /\ pc = "call"
    /\ \E walk \in Orders(FilesBelow(src_fs, call.src)) :
          CallEnds(_create_dummy_data(Effect(dst_files, dst_dirs), src_fs,
                                      call.src, call.dst, args, walk))
    /\ UNCHANGED << args, configs, cfg_idx, mode_log, step_log, downloaded_paths,
                    expected_dummy_paths, call_log, n_calls, src_fs, archives, call,
                    total, splits, split_idx, split_names, files_to_create >>

(* Line-based truncation of every text of at most MaxChars characters.      *)
InitLines ==
    /\ pc = "call"
    /\ NoCommand /\ NoResult
    /\ \E text \in Texts(MaxChars), n \in NLinesChoices :
          /\ args = Args(TRUE, n, None, None, NoneStr, FALSE)
          /\ src_fs = OneFile(SrcFile(text, NoJson, NoXml))
          /\ call = Call(SrcPath, << S_dummy_data, N_a_txt >>, SrcFile(text, NoJson, NoXml))

NextLines == CallCreateDummyData

SpecLines == InitLines /\ [][NextLines]_vars

-----------------------------------------------------------------------------
(* What the claims about line-based files speak of, stated without the      *)
(* code's loop.                                                             *)

\* the number of lines of a text: one per newline, and one more for an
\* unterminated last line
NumLines(text) ==
    Cardinality({ i \in 1..Len(text) : text[i] = "\n" })
    + (IF text # << >> /\ text[Len(text)] # "\n" THEN 1 ELSE 0)

\* p is the first n lines of text
IsFirstLines(p, text, n) ==
    /\ Len(p) <= Len(text)
    /\ p = SubSeq(text, 1, Len(p))
    /\ NumLines(p) = n
    /\ (p = << >> \/ p[Len(p)] = "\n" \/ p = text)

\* r is p without its leading and trailing whitespace
IsStripped(r, p) ==
    \E i \in 1..(Len(p) + 1) : \E j \in 0..Len(p) :
        /\ r = SubSeq(p, i, j)
        /\ \A k \in 1..(i - 1) : IsSpace(p[k])
        /\ \A k \in (j + 1)..Len(p) : IsSpace(p[k])
        /\ (r # << >> => ~IsSpace(r[1]) /\ ~IsSpace(r[Len(r)]))

LinesCallEnded == pc \in { "returned", "raised" } /\ handler = "lines"

\* C3: a call dispatched as line by line on a source of at least n_lines
\* lines returns 1, leaves the source as it was, and writes a destination
\* file holding the first n_lines lines of the source without the leading
\* and trailing whitespace of that text.
C3_LineTruncation ==
    (LinesCallEnded /\ NumLines(call.given.text) >= args.n_lines)
    => /\ exc = ""
       /\ ret = 1
       /\ src_fs[call.src] = call.given
       /\ call.dst \in DOMAIN dst_files
       /\ dst_files[call.dst].kind = "text"
       /\ \E k \in 0..Len(call.given.text) :
             /\ IsFirstLines(SubSeq(call.given.text, 1, k), call.given.text, args.n_lines)
             /\ IsStripped(dst_files[call.dst].text, SubSeq(call.given.text, 1, k))

\* a source of three lines cut to its first two, with whitespace stripped at
\* both ends
C3_Witness ==
    /\ LinesCallEnded
    /\ args.n_lines = 2
    /\ call.given.text = << " ", "\n", "a", "\n", "a" >>
    /\ dst_files[call.dst].text = << "a" >>
    /\ ret = 1

\* C10: a call dispatched as line by line on a source of fewer than n_lines
\* lines raises nothing, returns 1 and writes all the lines of the source,
\* stripped.
C10_ShortFile ==
    (LinesCallEnded /\ NumLines(call.given.text) < args.n_lines)
    => /\ exc = ""
       /\ ret = 1
       /\ call.dst \in DOMAIN dst_files
       /\ IsStripped(dst_files[call.dst].text, call.given.text)

-----------------------------------------------------------------------------
(* JSON truncation of bounded documents.                                    *)

\* the elements of a list: numbers, and a list of two numbers
JsonElements == { JNum(1), JNum(2), JList(<< JNum(1), JNum(2) >>) }
ColElements == { JNum(1), JList(<< JNum(1), JNum(2) >>) }

JsonLists(elements, n) == { JList(s) : s \in UNION { [1..k -> elements] : k \in 0..n } }

\* the values of a dict: lists, and a number
DictValues == JsonLists(ColElements, MaxCol) \cup { JNum(1) }

JsonKeys == { "data", "meta" }

JsonDicts ==
    { JDict(<< >>) }
    \cup { JDict(<< << k, v >> >>) : k \in JsonKeys, v \in DictValues }
    \cup { JDict(<< << ks[1], v1 >>, << ks[2], v2 >> >>) :
             ks \in { << "data", "meta" >>, << "meta", "data" >> },
             v1 \in DictValues, v2 \in DictValues }

\* the data the truncation is applied to
JsonSelected == JsonLists(JsonElements, MaxList) \cup JsonDicts \cup { JNum(1) }

\* the documents: the data itself, or the data as the field "data" of a
\* document with or without another field; and a file that is not JSON
JsonDocs ==
    JsonSelected
    \cup { JDict(<< << "data", x >> >>) : x \in JsonSelected }
    \cup { JDict(<< << "meta", JNum(1) >>, << "data", x >> >>) : x \in JsonSelected }
    \cup { JDict(<< << "data", x >>, << "meta", JNum(2) >> >>) : x \in JsonSelected }
    \cup { NoJson }

\* the destination before the call: nothing there, or the parent directory
\* with a file of an earlier run at dst_path
JsonDst == << S_dummy_data, N_a_json >>

JsonDestinations ==
    { [files |-> << >>, dirs |-> {}],
      [files |-> Put(<< >>, JsonDst, JsonFile(JList(<< JNum(2) >>))),
       dirs |-> ParentDirs(JsonDst)] }

InitJson ==
    /\ pc = "call"
    /\ NoCommand
    /\ handler = "" /\ n_writes = 0 /\ ret = 0 /\ exc = "" /\ logs = << >>
    /\ \E before \in JsonDestinations :
          dst_files = before.files /\ dst_dirs = before.dirs
    /\ \E doc \in JsonDocs, n \in NLinesChoices, field \in { None, "data" } :
          /\ args = Args(TRUE, n, field, None, NoneStr, FALSE)
          /\ src_fs = OneFile(SrcFile(<< >>, doc, NoXml))
          /\ call = Call(SrcPath, JsonDst, SrcFile(<< >>, doc, NoXml))

NextJson == CallCreateDummyData

SpecJson == InitJson /\ [][NextJson]_vars

JsonCallEnded == pc \in { "returned", "raised" } /\ handler = "json"

\* the source document has the data the claim speaks of
JsonHasData ==
    /\ call.given.json.t # "invalid"
    /\ args.json_field # None
       => call.given.json.t = "dict" /\ HasKey(call.given.json.d, args.json_field)

\* the selected data: the whole document, or document[json_field]
JsonData ==
    IF args.json_field # None
    THEN Lookup(call.given.json.d, args.json_field)
    ELSE call.given.json

IsListOfLists(v) == v.t = "dict" /\ \A i \in 1..Len(v.d) : v.d[i][2].t = "list"

\* the case C4 is about: the data is a list, or a dict whose values are lists
JsonCase == JsonCallEnded /\ JsonHasData /\ (JsonData.t = "list" \/ IsListOfLists(JsonData))

\* out is the first n elements of the list src, in order
IsFirstElements(out, src, n) ==
    /\ out.t = "list"
    /\ Len(out.l) = Min(n, Len(src.l))
    /\ \A i \in 1..Len(out.l) : out.l[i] = src.l[i]

\* out is the data cut as C4 says
IsCutData(out, src, n) ==
    IF src.t = "list" THEN IsFirstElements(out, src, n)
    ELSE /\ out.t = "dict"
         /\ Len(out.d) = Len(src.d)
         /\ \A i \in 1..Len(src.d) :
               /\ out.d[i][1] = src.d[i][1]
               /\ IsFirstElements(out.d[i][2], src.d[i][2], n)

\* the written document is the cut data, alone under json_field when given
JsonOutputShape ==
    /\ exc = ""
    /\ ret = 1
    /\ call.dst \in DOMAIN dst_files
    /\ dst_files[call.dst].kind = "json"
    /\ LET out == dst_files[call.dst].json
       IN  IF args.json_field # None
           THEN /\ out.t = "dict"
                /\ Len(out.d) = 1
                /\ out.d[1][1] = args.json_field
                /\ IsCutData(out.d[1][2], JsonData, args.n_lines)
           ELSE IsCutData(out, JsonData, args.n_lines)

\* no list anywhere in v is longer than n
RECURSIVE NoLongList(_, _)
NoLongList(v, n) ==
    /\ v.t = "list" => Len(v.l) <= n
    /\ \A i \in 1..Len(v.l) : NoLongList(v.l[i], n)
    /\ \A i \in 1..Len(v.d) : NoLongList(v.d[i][2], n)

\* the lists the code cuts: the data when a list, the values of the data
\* when a dict
CutLists(data) ==
    IF data.t = "list" THEN { data } ELSE { data.d[i][2] : i \in 1..Len(data.d) }

\* C4 as stated: the output is the cut data, and no list in the output is
\* longer than n_lines.
C4_Original ==
    JsonCase => JsonOutputShape /\ NoLongList(dst_files[call.dst].json, args.n_lines)

\* C4 as amended: the output is the cut data, and no list the code cuts (the
\* selected list, or a value of the selected dict) is longer than n_lines in
\* the output; a list that is an element of such a list is copied whole.
C4_JsonTruncation ==
    JsonCase
    => /\ JsonOutputShape
       /\ LET out == dst_files[call.dst].json
              data == IF args.json_field # None THEN out.d[1][2] ELSE out
          IN  \A c \in CutLists(data) : Len(c.l) <= args.n_lines

\* a dict under json_field, beside another top-level field, with a column of
\* two elements cut to one
C4_Witness ==
    /\ JsonCase
    /\ args.json_field = "data"
    /\ args.n_lines = 1
    /\ Len(call.given.json.d) = 2
    /\ JsonData.t = "dict"
    /\ \E i \in 1..Len(JsonData.d) : Len(JsonData.d[i][2].l) = 2
    /\ ret = 1
    /\ Len(dst_files[call.dst].json.d) = 1


\* the selected data is a dict with a value that is not a list
JsonBadColumns ==
    /\ JsonHasData
    /\ JsonData.t = "dict"
    /\ \E i \in 1..Len(JsonData.d) : JsonData.d[i][2].t # "list"

\* C11: when the selected JSON data is a dict with at least one value that is
\* not a list, the call of _create_dummy_data raises ValueError and leaves the
\* file system as it was: no destination file and no destination parent
\* directory is created or modified, and the source is left alone.
C11_ValueErrorNoWrite ==
    [][ (pc = "call" /\ EndsWith(Basename(call.dst), JsonExt) /\ JsonBadColumns)
        => /\ pc' = "raised"
           /\ exc' = "ValueError"
           /\ handler' = "json"
           /\ n_writes' = 0
           /\ UNCHANGED << dst_files, dst_dirs, src_fs >> ]_vars

\* a dict under json_field with a list column and a number, nothing at the
\* destination before the call: ValueError, and still nothing there
C11_Witness ==
    /\ JsonCallEnded
    /\ JsonBadColumns
    /\ args.json_field = "data"
    /\ Len(JsonData.d) = 2
    /\ JsonData.d[1][2].t = "list" /\ Len(JsonData.d[1][2].l) = 2
    /\ JsonData.d[2][2].t = "num"
    /\ exc = "ValueError"
    /\ dst_files = << >>
    /\ dst_dirs = {}

-----------------------------------------------------------------------------
(* XML truncation of bounded documents.                                     *)

XmlTags == { "r", "item", "x" }

\* the documents of k elements: an element's parent has a smaller number
XmlTreesOf(k) ==
    { [tag |-> tg, parent |-> pr] :
        tg \in [1..k -> XmlTags],
        pr \in { f \in [1..k -> 0..(k - 1)] :
                   /\ f[1] = 0
                   /\ \A i \in 2..k : f[i] >= 1 /\ f[i] < i } }

XmlTrees == UNION { XmlTreesOf(k) : k \in 1..MaxNodes }

InitXml ==
    /\ pc = "call"
    /\ NoCommand /\ NoResult
    /\ \E tree \in XmlTrees \cup { NoXml }, n \in NLinesChoices, tg \in { None, "item" } :
          /\ args = Args(TRUE, n, None, tg, NoneStr, FALSE)
          /\ src_fs = OneFile(SrcFile(<< >>, NoJson, tree))
          /\ call = Call(SrcPath, << S_dummy_data, N_a_xml >>, SrcFile(<< >>, NoJson, tree))

NextXml == CallCreateDummyData

SpecXml == InitXml /\ [][NextXml]_vars

XmlCallEnded == pc \in { "returned", "raised" } /\ handler = "xml"

XmlSource == call.given.xml

\* the elements tagged xml_tag in the source
XmlTagged == { x \in Elements(XmlSource) : XmlSource.tag[x] = args.xml_tag }

\* the position of an element in document order
DocPos(tree, x) == CHOOSE i \in 1..Len(Iter(tree)) : Iter(tree)[i] = x

\* the case C5 is about: xml_tag is given and present in the source
XmlCase == XmlCallEnded /\ args.xml_tag # None /\ XmlSource # NoXml /\ XmlTagged # {}

XmlWritten ==
    /\ exc = ""
    /\ ret = 1
    /\ call.dst \in DOMAIN dst_files
    /\ dst_files[call.dst].kind = "xml"
    /\ dst_files[call.dst].xml = XmlSource

XmlParents == { XmlSource.parent[c] : c \in { c \in XmlTagged : XmlSource.parent[c] # 0 } }

\* the tag of the first of them in document order
XmlParentTag ==
    XmlSource.tag[CHOOSE p \in XmlParents :
                     \A q \in XmlParents : DocPos(XmlSource, p) <= DocPos(XmlSource, q)]

\* the elements the truncation counts: those tagged xml_tag that are
\* children of an element tagged like the first parent
XmlCounted ==
    { c \in XmlTagged : /\ XmlSource.parent[c] # 0
                        /\ XmlSource.tag[XmlSource.parent[c]] = XmlParentTag }

\* x comes before y in the order of the loop: by parent in document order,
\* then by position under the parent
XmlBefore(x, y) ==
    \/ DocPos(XmlSource, XmlSource.parent[x]) < DocPos(XmlSource, XmlSource.parent[y])
    \/ XmlSource.parent[x] = XmlSource.parent[y] /\ x < y

\* the case of the amended C5: xml_tag is given and some element of the
\* source has a child tagged xml_tag
XmlCaseAmended == XmlCase /\ XmlParents # {}

-----------------------------------------------------------------------------
(* Format dispatch over destination names, text-file patterns and sources.  *)

DstNames ==
    { N_a_txt, N_a_csv, N_a_tsv, N_a_jsonl, N_a_json, N_b_json, N_a_xml, N_a_dat,
      N_a_bin, N_txt }

\* the directory of the destination: dummy_data, or a directory named a.txt
DstDirs == { S_dummy_data, N_a_txt }

\* --match_text_files: None, "", "*.dat", "*.json", "a.*", "?.xml,*.bin", "b*"
MatchChoices ==
    { NoneStr,
      << >>,
      << "*", ".", "d", "a", "t" >>,
      << "*", ".", "j", "s", "o", "n" >>,
      << "a", ".", "*" >>,
      << "?", ".", "x", "m", "l", ",", "*", ".", "b", "i", "n" >>,
      << "b", "*" >> }

SampleTree == [tag |-> << "r", "item", "item" >>, parent |-> << 0, 1, 1 >>]

\* a plain text of two lines, a JSON list on one line, an XML document on
\* three lines
SampleSources ==
    { SrcFile(<< "a", "\n", "a", "\n" >>, NoJson, NoXml),
      SrcFile(<< "a", "a" >>, JList(<< JNum(1), JNum(2) >>), NoXml),
      SrcFile(<< "a", "\n", "a", "\n", "a" >>, NoJson, SampleTree) }

SrcPaths == { SrcPath, << S_downloads, N_a_json >> }

InitDispatch ==
    /\ pc = "call"
    /\ NoCommand /\ NoResult
    /\ \E name \in DstNames, dir \in DstDirs, match \in MatchChoices, f \in SampleSources,
          src_path \in SrcPaths, n \in NLinesChoices, tg \in { None, "item" } :
          /\ args = Args(TRUE, n, None, tg, match, FALSE)
          /\ src_fs = [q \in { src_path } |-> f]
          /\ call = Call(src_path, << dir, name >>, f)

NextDispatch == CallCreateDummyData

SpecDispatch == InitDispatch /\ [][NextDispatch]_vars

CallEnded == pc \in { "returned", "raised" }

\* the name of the destination file has one of the line-by-line extensions
\* or matches one of the comma-separated patterns
NameIsLineBased ==
    LET name == Basename(call.dst)
    IN  \/ \E e \in { line_by_line_extensions[i] : i \in 1..Len(line_by_line_extensions) } :
              EndsWith(name, e)
        \/ /\ args.match_text_files # NoneStr
           /\ \E pattern \in { Split(args.match_text_files, ",")[i] :
                                 i \in 1..Len(Split(args.match_text_files, ",")) } :
                 Fnmatch(name, pattern)

\* C8: the branch that runs is decided by the destination file name and
\* match_text_files alone: line-based before JSON before XML; a file that
\* matches none gets no destination file, a warning and result 0; a file
\* dispatched as line-based is written as text, whatever its extension.
C8_Dispatch ==
    CallEnded
    => LET name == Basename(call.dst)
       IN  /\ handler \in { "lines", "json", "xml", "none" }
           /\ handler = "lines" <=> NameIsLineBased
           /\ handler = "json" <=> (~NameIsLineBased /\ EndsWith(name, JsonExt))
           /\ handler = "xml" <=> (/\ ~NameIsLineBased
                                   /\ ~EndsWith(name, JsonExt)
                                   /\ EndsWith(name, XmlExt))
           /\ handler = "none" => /\ call.dst \notin DOMAIN dst_files
                                  /\ ret = 0
                                  /\ exc = ""
                                  /\ logs = << "warning: couldn't generate" >>
           /\ (handler = "lines" /\ call.dst \in DOMAIN dst_files)
              => dst_files[call.dst].kind = "text"
           /\ (handler # "lines" /\ call.dst \in DOMAIN dst_files)
              => dst_files[call.dst].kind # "text"

\* a.json with --match_text_files "*.json" and a source of two lines, cut
\* line by line
C8_Witness ==
    /\ CallEnded
    /\ Basename(call.dst) = N_a_json
    /\ args.match_text_files = << "*", ".", "j", "s", "o", "n" >>
    /\ handler = "lines"
    /\ ret = 1
    /\ dst_files[call.dst].kind = "text"

-----------------------------------------------------------------------------
(* The download managers.  DownloadManager, MockDownloadManager and         *)
(* map_nested are imported by dummy_data.py; they are modelled by what the  *)
(* specification says of them: the real manager downloads a URL into the    *)
(* cache and extracts an archive into a directory of the cache, the mock    *)
(* manager maps a URL to a path under the dummy data folder, and both keep  *)
(* the structure of url_or_urls.                                            *)

\* url_or_urls: a URL, or a list (or the values of a dict) of such
Url(name) == [t |-> "url", u |-> name, l |-> << >>]
UrlList(items) == [t |-> "list", u |-> << >>, l |-> items]

\* the leaves of a structure in the order map_nested visits them
RECURSIVE Flatten(_)
RECURSIVE FlattenAll(_)
Flatten(x) == IF x.t = "url" THEN << x.u >> ELSE FlattenAll(x.l)
FlattenAll(items) ==
    IF items = << >> THEN << >> ELSE Flatten(Head(items)) \o FlattenAll(Tail(items))

\* what the URLs of this model hold: files, and an archive of three files
\* (one of them hidden, one in a sub-directory)
SampleList == JList(<< JNum(1), JNum(2), JNum(1) >>)
ArchiveMembers ==
    (<< N_a_csv >> :> SrcFile(<< "a", "\n", "a", "\n" >>, NoJson, NoXml))
    @@ (<< N_hidden >> :> SrcFile(<< "a" >>, NoJson, NoXml))
    @@ (<< << "s" >>, N_b_json >> :> SrcFile(<< "a" >>, SampleList, NoXml))

Remote(name) ==
    CASE name = N_a_txt -> SrcFile(<< "a", "\n", " ", "a" >>, NoJson, NoXml)
      [] name = N_a_xml -> SrcFile(<< "a", "\n", "a" >>, NoJson, SampleTree)
      [] name = N_a_json -> SrcFile(<< "a" >>, SampleList, NoXml)
      [] OTHER -> SrcFile(<< "a" >>, NoJson, NoXml)

IsArchive(name) == name = N_arc_zip

CachePath(name) == << S_downloads, name >>
ExtractedPath(name) == << S_downloads, S_extracted, name >>

\* DownloadManager.download on one URL: the path in the cache
RealDownloadPath(name) == CachePath(name)
\* DownloadManager.extract on one downloaded path: the directory an archive
\* is extracted to, the path itself otherwise
RealExtractPath(name) == IF IsArchive(name) THEN ExtractedPath(name) ELSE CachePath(name)
\* MockDownloadManager.download on one URL: the path relative to the dummy
\* data folder
MockDownloadPath(name) == << S_dummy_data, name >>

\* the cache after the download of the URLs names
RECURSIVE Downloaded(_, _)
Downloaded(fs, names) ==
    IF names = << >> THEN fs
    ELSE Downloaded(Put(fs, CachePath(Head(names)), Remote(Head(names))), Tail(names))

\* the cache after the extraction of the archives among names
RECURSIVE Extracted(_, _)
Extracted(fs, names) ==
    IF names = << >> THEN fs
    ELSE IF ~IsArchive(Head(names)) THEN Extracted(fs, Tail(names))
    ELSE LET root == ExtractedPath(Head(names))
             dirs == { root } \cup UNION { { root \o SubSeq(m, 1, k) : k \in 1..(Len(m) - 1) } :
                                             m \in DOMAIN ArchiveMembers }
             paths == (DOMAIN fs) \cup dirs \cup { root \o m : m \in DOMAIN ArchiveMembers }
         IN  Extracted([q \in paths |->
                          IF q \in dirs THEN SrcDir
                          ELSE IF \E m \in DOMAIN ArchiveMembers : q = root \o m
                          THEN ArchiveMembers[CHOOSE m \in DOMAIN ArchiveMembers : q = root \o m]
                          ELSE fs[q]],
                       Tail(names))

MapSeq(Op(_), sq) == [i \in 1..Len(sq) |-> Op(sq[i])]

\* mock_download_manager.dummy_data_folder for a configuration
dummy_data_folder(config) == IF config = NoneStr THEN << S_dummy >> ELSE << S_dummy, config >>

-----------------------------------------------------------------------------
(* The command.                                                             *)

\* line 260: builder_cls.BUILDER_CONFIGS or [None]
Configs == IF configs = << >> THEN << NoneStr >> ELSE configs

Config == Configs[cfg_idx]

\* what a dataset's _split_generators may pass to the download manager
UrlArgs ==
    { Url(N_a_txt), Url(N_a_xml), Url(N_arc_zip),
      UrlList(<< Url(N_a_json), UrlList(<< Url(N_a_bin) >>) >>) }

LogCall(method, names) ==
    [i \in 1..Len(names) |-> [call |-> n_calls + 1, method |-> method, url |-> names[i], pos |-> i]]

WorkflowUnchanged ==
    UNCHANGED << args, configs, call, splits, split_idx, split_names, files_to_create >>

\* a plausible slip: the mock paths are not recorded
download_and_extract_no_dummy ==
    /\ pc = "split_generators"
    /\ n_calls < MaxCalls
    /\ \E url_or_urls \in UrlArgs :
          LET names == Flatten(url_or_urls)
          IN  /\ src_fs' = Extracted(Downloaded(src_fs, names), names)
              /\ downloaded_paths' = downloaded_paths \o MapSeq(RealExtractPath, names)
              /\ expected_dummy_paths' = expected_dummy_paths
              /\ call_log' = call_log \o LogCall("download_and_extract", names)
    /\ n_calls' = n_calls + 1
    /\ WorkflowUnchanged
    /\ UNCHANGED << pc, cfg_idx, mode_log, step_log, dst_files, dst_dirs, archives,
                    handler, n_writes, total, ret, exc, logs >>

\* lines 44-49: download
download ==
    /\ pc = "split_generators"
    /\ n_calls < MaxCalls
    /\ \E url_or_urls \in UrlArgs :
          LET names == Flatten(url_or_urls)
          IN  /\ src_fs' = Downloaded(src_fs, names)
              /\ downloaded_paths' = downloaded_paths \o MapSeq(RealDownloadPath, names)
              /\ expected_dummy_paths' = expected_dummy_paths \o MapSeq(MockDownloadPath, names)
              /\ call_log' = call_log \o LogCall("download", names)
    /\ n_calls' = n_calls + 1
    /\ WorkflowUnchanged
    /\ UNCHANGED << pc, cfg_idx, mode_log, step_log, dst_files, dst_dirs, archives,
                    handler, n_writes, total, ret, exc, logs >>

\* lines 51-56: download_and_extract
download_and_extract ==
    /\ pc = "split_generators"
    /\ n_calls < MaxCalls
    /\ \E url_or_urls \in UrlArgs :
          LET names == Flatten(url_or_urls)
          IN  /\ src_fs' = Extracted(Downloaded(src_fs, names), names)
              /\ downloaded_paths' = downloaded_paths \o MapSeq(RealExtractPath, names)
              /\ expected_dummy_paths' = expected_dummy_paths \o MapSeq(MockDownloadPath, names)
              /\ call_log' = call_log \o LogCall("download_and_extract", names)
    /\ n_calls' = n_calls + 1
    /\ WorkflowUnchanged
    /\ UNCHANGED << pc, cfg_idx, mode_log, step_log, dst_files, dst_dirs, archives,
                    handler, n_writes, total, ret, exc, logs >>


N_dummy_zip == << "d", "u", "m", "m", "y", "_", "d", "a", "t", "a", ".", "z", "i", "p" >>

\* the directory auto-generation fills for a configuration
DummyDataDir(config) == dummy_data_folder(config) \o << S_dummy_data >>

IsBelowOrAt(path, dir) == Len(path) >= Len(dir) /\ SubSeq(path, 1, Len(dir)) = dir

Restrict(f, S) == [q \in S |-> f[q]]

MarkDone(log) == [log EXCEPT ![Len(log)].done = TRUE]

\* a plausible slip: the test of auto_generate is inverted
StartConfigInverted ==
    /\ pc = "run"
    /\ cfg_idx < Len(Configs)
    /\ cfg_idx' = cfg_idx + 1
    /\ IF ~args.auto_generate
       THEN /\ pc' = "split_generators"
            /\ mode_log' = Append(mode_log, [config |-> Configs[cfg_idx + 1],
                                              modes |-> { "auto" }, done |-> FALSE])
       ELSE /\ pc' = "instructions"
            /\ mode_log' = Append(mode_log, [config |-> Configs[cfg_idx + 1],
                                              modes |-> { "print" }, done |-> FALSE])
    /\ downloaded_paths' = << >>
    /\ expected_dummy_paths' = << >>
    /\ call_log' = << >>
    /\ step_log' = << >>
    /\ WorkflowUnchanged
    /\ UNCHANGED << n_calls, src_fs, dst_files, dst_dirs, archives, handler, n_writes,
                    total, ret, exc, logs >>

\* lines 262-286: one turn of the loop of run(), up to the call of the mode;
\* lines 289-293: _autogenerate_dummy_data makes a download manager with no
\* recorded paths
StartConfig ==
    /\ pc = "run"
    /\ cfg_idx < Len(Configs)
    /\ cfg_idx' = cfg_idx + 1
    /\ IF args.auto_generate
       THEN /\ pc' = "split_generators"
            /\ mode_log' = Append(mode_log, [config |-> Configs[cfg_idx + 1],
                                              modes |-> { "auto" }, done |-> FALSE])
       ELSE /\ pc' = "instructions"
            /\ mode_log' = Append(mode_log, [config |-> Configs[cfg_idx + 1],
                                              modes |-> { "print" }, done |-> FALSE])
    /\ downloaded_paths' = << >>
    /\ expected_dummy_paths' = << >>
    /\ call_log' = << >>
    /\ step_log' = << >>
    /\ WorkflowUnchanged
    /\ UNCHANGED << n_calls, src_fs, dst_files, dst_dirs, archives, handler, n_writes,
                    total, ret, exc, logs >>

\* line 262: the loop of run() ends
RunDone ==
    /\ pc = "run"
    /\ cfg_idx = Len(Configs)
    /\ pc' = "done"
    /\ WorkflowUnchanged
    /\ UNCHANGED << cfg_idx, mode_log, step_log, downloaded_paths, expected_dummy_paths,
                    call_log, n_calls, src_fs, dst_files, dst_dirs, archives, handler,
                    n_writes, total, ret, exc, logs >>

\* line 294: the dataset's _split_generators returns
SplitGeneratorsReturn ==
    /\ pc = "split_generators"
    /\ pc' = "generate"
    /\ step_log' = Append(step_log, "split_generators")
    /\ WorkflowUnchanged
    /\ UNCHANGED << cfg_idx, mode_log, downloaded_paths, expected_dummy_paths, call_log,
                    n_calls, src_fs, dst_files, dst_dirs, archives, handler, n_writes,
                    total, ret, exc, logs >>

\* lines 70-80: the loop over zip(downloaded_paths, expected_dummy_paths);
\* total += None raises TypeError
\* line 78: total += the result of the call for one pair
GenerateAdd(tot, one) ==
    IF one.exc = "" /\ one.handler = "missing"
    THEN [st |-> [one EXCEPT !.exc = "TypeError"], total |-> tot]
    ELSE [st |-> one, total |-> IF one.exc = "" THEN tot + one.ret ELSE tot]

RECURSIVE GenerateLoop(_, _, _, _, _, _)
GenerateLoop(acc, i, fs, a, folder, walk) ==
    IF i > Min(Len(downloaded_paths), Len(expected_dummy_paths)) \/ acc.st.exc # ""
    THEN acc
    ELSE GenerateLoop(
             GenerateAdd(acc.total,
                         _create_dummy_data(acc.st, fs, downloaded_paths[i],
                                            folder \o expected_dummy_paths[i], a,
                                            IF IsDir(fs, downloaded_paths[i])
                                            THEN walk[downloaded_paths[i]] ELSE << >>)),
             i + 1, fs, a, folder, walk)

\* for each recorded directory, an order in which os.walk finds its files
WalkChoices ==
    LET dirs == { downloaded_paths[i] : i \in { i \in 1..Len(downloaded_paths) :
                                                  IsDir(src_fs, downloaded_paths[i]) } }
    IN  { w \in [dirs -> UNION { Orders(FilesBelow(src_fs, d)) : d \in dirs }] :
            \A d \in dirs : w[d] \in Orders(FilesBelow(src_fs, d)) }

\* lines 58-86 (called at line 295): auto_generate_dummy_data_folder
GenerateEnds(r) ==
    /\ dst_files' = r.st.files
    /\ dst_dirs' = r.st.dirs
    /\ handler' = r.st.handler
    /\ n_writes' = r.st.writes
    /\ total' = r.total
    /\ exc' = r.st.exc
    /\ IF r.st.exc = ""
       THEN /\ ret' = (r.total > 0)
            /\ logs' = logs \o r.st.logs
                       \o (IF r.total = 0
                           THEN << "error: no dummy files were created" >>
                           ELSE << >>)
            /\ step_log' = Append(step_log, "auto_generate")
            /\ pc' = "generated"
       ELSE /\ ret' = ret
            /\ logs' = logs \o r.st.logs
            /\ step_log' = step_log
            /\ pc' = "raised"

auto_generate_dummy_data_folder ==
    /\ pc = "generate"
    /\ \E walk \in WalkChoices :
          GenerateEnds(
              GenerateLoop([st |-> Effect(dst_files,
                                          dst_dirs \cup ParentDirs(DummyDataDir(Config))
                                                   \cup { DummyDataDir(Config) }),
                            total |-> 0],
                           1, src_fs, args, dummy_data_folder(Config), walk))
    /\ WorkflowUnchanged
    /\ UNCHANGED << cfg_idx, mode_log, downloaded_paths, expected_dummy_paths, call_log,
                    n_calls, src_fs, archives >>

\* a plausible slip: the directory is not removed after it is archived
compress_without_rmtree ==
    /\ pc = "generated"
    /\ ~args.keep_uncompressed
    /\ archives' = archives \cup { dummy_data_folder(Config) \o << N_dummy_zip >> }
    /\ step_log' = Append(step_log, "compress")
    /\ mode_log' = MarkDone(mode_log)
    /\ pc' = "run"
    /\ WorkflowUnchanged
    /\ UNCHANGED << cfg_idx, downloaded_paths, expected_dummy_paths, call_log, n_calls,
                    src_fs, handler, n_writes, total, ret, exc, logs, dst_files, dst_dirs >>

\* lines 298-300 and 179-185: compress_autogenerated_dummy_data, then
\* _autogenerate_dummy_data returns
compress_autogenerated_dummy_data ==
    /\ pc = "generated"
    /\ ~args.keep_uncompressed
    /\ LET base == DummyDataDir(Config)
       IN  /\ archives' = archives \cup { dummy_data_folder(Config) \o << N_dummy_zip >> }
           /\ dst_files' = Restrict(dst_files, { q \in DOMAIN dst_files : ~IsBelowOrAt(q, base) })
           /\ dst_dirs' = { d \in dst_dirs : ~IsBelowOrAt(d, base) }
    /\ logs' = Append(logs, "info: compressing")
    /\ step_log' = Append(step_log, "compress")
    /\ mode_log' = MarkDone(mode_log)
    /\ pc' = "run"
    /\ WorkflowUnchanged
    /\ UNCHANGED << cfg_idx, downloaded_paths, expected_dummy_paths, call_log, n_calls,
                    src_fs, handler, n_writes, total, ret, exc >>

\* lines 301-307: the folder is kept uncompressed, then
\* _autogenerate_dummy_data returns
keep_uncompressed ==
    /\ pc = "generated"
    /\ args.keep_uncompressed
    /\ logs' = Append(logs, "info: kept uncompressed")
    /\ step_log' = Append(step_log, "keep")
    /\ mode_log' = MarkDone(mode_log)
    /\ pc' = "run"
    /\ WorkflowUnchanged
    /\ UNCHANGED << cfg_idx, downloaded_paths, expected_dummy_paths, call_log, n_calls,
                    src_fs, dst_files, dst_dirs, archives, handler, n_writes, total, ret,
                    exc >>


\* what _generate_examples does for a split under the mock download
\* manager: it runs to its end, or raises FileNotFoundError for the dummy
\* file itself or for a file below it
SplitOutcomes == { "ok", "missing dummy_data", "missing dummy_data/train" }

\* e.filename of the FileNotFoundError of a split
MissingFile(outcome) == IF outcome = "missing dummy_data" THEN "dummy_data" ELSE "dummy_data/train"

\* lines 310-327: the start of _print_dummy_data_instructions.  When
\* _split_generators raises FileNotFoundError the guidance is printed and
\* generator_splits stays unassigned, so that the for statement of line 327
\* raises UnboundLocalError.
print_begin ==
    /\ pc = "instructions"
    /\ dst_dirs' = dst_dirs \cup ParentDirs(dummy_data_folder(Config))
                            \cup { dummy_data_folder(Config) }
    /\ \/ /\ logs' = Append(logs, "print: make sure you create the file")
          /\ exc' = "UnboundLocalError"
          /\ pc' = "raised"
          /\ UNCHANGED << splits, split_idx, split_names, files_to_create >>
       \/ /\ \E k \in 0..MaxSplits : splits' \in [1..k -> SplitOutcomes]
          /\ split_idx' = 0
          /\ split_names' = << >>
          /\ files_to_create' = {}
          /\ pc' = "splits"
          /\ UNCHANGED << logs, exc >>
    /\ UNCHANGED << args, configs, call, cfg_idx, mode_log, step_log, downloaded_paths,
                    expected_dummy_paths, call_log, n_calls, src_fs, dst_files, archives,
                    handler, n_writes, total, ret >>

\* lines 327-349: one turn of the loop over the splits
print_split ==
    /\ pc = "splits"
    /\ split_idx < Len(splits)
    /\ split_idx' = split_idx + 1
    /\ split_names' = Append(split_names, split_idx + 1)
    /\ files_to_create' = IF splits[split_idx + 1] = "ok" THEN files_to_create
                          ELSE files_to_create \cup { MissingFile(splits[split_idx + 1]) }
    /\ UNCHANGED << pc, args, configs, call, splits, cfg_idx, mode_log, step_log,
                    downloaded_paths, expected_dummy_paths, call_log, n_calls, src_fs,
                    dst_files, dst_dirs, archives, handler, n_writes, total, ret, exc, logs >>

\* lines 351-388: the instructions are put together and printed.
\* dummy_data_guidance_print is assigned in the loop over the splits only,
\* so that with no split line 374 raises UnboundLocalError.
print_finish ==
    /\ pc = "splits"
    /\ split_idx = Len(splits)
    /\ IF Len(splits) = 0
       THEN /\ exc' = "UnboundLocalError"
            /\ pc' = "raised"
            /\ UNCHANGED << logs, mode_log >>
       ELSE /\ logs' = Append(logs, IF files_to_create = { "dummy_data" }
                                    THEN "print: instructions for a single dummy file"
                                    ELSE "print: instructions for a dummy folder")
            /\ mode_log' = MarkDone(mode_log)
            /\ pc' = "run"
            /\ exc' = exc
    /\ UNCHANGED << args, configs, call, splits, split_idx, split_names, files_to_create,
                    cfg_idx, step_log, downloaded_paths, expected_dummy_paths, call_log,
                    n_calls, src_fs, dst_files, dst_dirs, archives, handler, n_writes,
                    total, ret >>

\* the names of the configurations: "c", "cc", ...
ConfigName(i) == [j \in 1..i |-> "c"]

NoCall == Call(<< >>, << >>, SrcDir)

\* the command line and the builder's configurations are drawn; the cache
\* and the dataset's dummy folders are empty
Init ==
    /\ pc = "run"
    /\ \E auto \in BOOLEAN, keep \in BOOLEAN, n \in { 1, 3 }, tg \in { None, "item" } :
          args = Args(auto, n, None, tg, NoneStr, keep)
    /\ \E k \in 0..MaxConfigs : configs = [i \in 1..k |-> ConfigName(i)]
    /\ cfg_idx = 0
    /\ mode_log = << >>
    /\ step_log = << >>
    /\ downloaded_paths = << >>
    /\ expected_dummy_paths = << >>
    /\ call_log = << >>
    /\ n_calls = 0
    /\ src_fs = << >>
    /\ archives = {}
    /\ call = NoCall
    /\ total = 0
    /\ splits = << >>
    /\ split_idx = 0
    /\ split_names = << >>
    /\ files_to_create = {}
    /\ NoResult

Next ==
    \/ StartConfig
    \/ RunDone
    \/ download
    \/ download_and_extract
    \/ SplitGeneratorsReturn
    \/ auto_generate_dummy_data_folder
    \/ compress_autogenerated_dummy_data
    \/ keep_uncompressed
    \/ print_begin
    \/ print_split
    \/ print_finish

Spec == Init /\ [][Next]_vars

-----------------------------------------------------------------------------
(* The claims about the command and its download manager.                   *)

Range(sq) == { sq[i] : i \in 1..Len(sq) }

\* C1: downloaded_paths and expected_dummy_paths have the same length, and
\* their entries at the same index are the real path and the mock path of
\* the same URL of the same call, the calls in the order they were made and
\* the URLs of a call in the order of url_or_urls.
C1_PathCorrespondence ==
    /\ Len(downloaded_paths) = Len(expected_dummy_paths)
    /\ Len(downloaded_paths) = Len(call_log)
    /\ \A i \in 1..Len(call_log) :
          /\ i <= Len(downloaded_paths)
             => downloaded_paths[i] = IF call_log[i].method = "download"
                                      THEN CachePath(call_log[i].url)
                                      ELSE IF IsArchive(call_log[i].url)
                                      THEN ExtractedPath(call_log[i].url)
                                      ELSE CachePath(call_log[i].url)
          /\ i <= Len(expected_dummy_paths)
             => expected_dummy_paths[i] = << S_dummy_data, call_log[i].url >>
    /\ \A i, j \in 1..Len(call_log) :
          i < j => \/ call_log[i].call < call_log[j].call
                   \/ call_log[i].call = call_log[j].call /\ call_log[i].pos < call_log[j].pos

\* a download of a list of two URLs followed by a download_and_extract of
\* the archive
C1_Witness ==
    /\ Len(call_log) = 3
    /\ call_log[1].method = "download"
    /\ call_log[2].call = call_log[1].call
    /\ call_log[3].method = "download_and_extract"
    /\ downloaded_paths[3] = ExtractedPath(N_arc_zip)
    /\ expected_dummy_paths[3] = << S_dummy_data, N_arc_zip >>

\* C2: auto_generate_dummy_data_folder returns True exactly when a dummy
\* file was written and logs the error exactly when none was: its total is
\* the number of destination files written.
C2_Original ==
    pc = "generated"
    => /\ ret = TRUE <=> n_writes > 0
       /\ total = n_writes
       /\ ret = FALSE <=> (logs # << >> /\ logs[Len(logs)] = "error: no dummy files were created")

\* C6: run() takes the configurations in their declared order (one None
\* configuration when there are none), performs for each exactly the mode
\* auto_generate selects, and starts a configuration only when the one
\* before has finished.
C6_RunOrder ==
    /\ Len(mode_log) = cfg_idx
    /\ cfg_idx <= (IF configs = << >> THEN 1 ELSE Len(configs))
    /\ \A i \in 1..Len(mode_log) :
          /\ mode_log[i].config = IF configs = << >> THEN NoneStr ELSE configs[i]
          /\ mode_log[i].modes = { IF args.auto_generate THEN "auto" ELSE "print" }
          /\ i < Len(mode_log) => mode_log[i].done
    /\ pc \in { "split_generators", "generate", "generated" }
       => args.auto_generate /\ ~mode_log[cfg_idx].done
    /\ pc \in { "instructions", "splits" } => ~args.auto_generate /\ ~mode_log[cfg_idx].done
    /\ pc = "run" /\ cfg_idx > 0 => mode_log[cfg_idx].done
    /\ pc = "done"
       => /\ cfg_idx = (IF configs = << >> THEN 1 ELSE Len(configs))
          /\ \A i \in 1..Len(mode_log) : mode_log[i].done

\* two configurations auto-generated one after the other
C6_Witness ==
    /\ pc = "done"
    /\ Len(configs) = 2
    /\ args.auto_generate
    /\ mode_log[1].config = ConfigName(1)
    /\ mode_log[2].config = ConfigName(2)
    /\ mode_log[2].done

AutogenerateSteps ==
    << "split_generators", "auto_generate",
       IF args.keep_uncompressed THEN "keep" ELSE "compress" >>

\* _autogenerate_dummy_data has returned for the current configuration
AutogenerateReturned ==
    args.auto_generate /\ cfg_idx > 0 /\ mode_log[cfg_idx].done

\* C7: the steps of _autogenerate_dummy_data are split generation, folder
\* generation, then compression exactly when keep_uncompressed is false;
\* when it has returned after compressing, dummy_data.zip is in the
\* configuration's dummy data folder and the dummy_data directory is gone;
\* with keep_uncompressed the directory is there and no archive was made.
C7_AutogenerateOrder ==
    /\ Len(step_log) <= 3
    /\ \A i \in 1..Len(step_log) : step_log[i] = AutogenerateSteps[i]
    /\ AutogenerateReturned
       => /\ step_log = AutogenerateSteps
          /\ IF args.keep_uncompressed
             THEN /\ DummyDataDir(Config) \in dst_dirs
                  /\ dummy_data_folder(Config) \o << N_dummy_zip >> \notin archives
             ELSE /\ dummy_data_folder(Config) \o << N_dummy_zip >> \in archives
                  /\ DummyDataDir(Config) \notin dst_dirs
                  /\ \A q \in DOMAIN dst_files : ~IsBelowOrAt(q, DummyDataDir(Config))

\* a folder with a dummy file in it has been generated and compressed
C7_Witness ==
    /\ AutogenerateReturned
    /\ ~args.keep_uncompressed
    /\ step_log = << "split_generators", "auto_generate", "compress" >>
    /\ n_writes > 0
    /\ dummy_data_folder(Config) \o << N_dummy_zip >> \in archives

\* C9: when _split_generators raises FileNotFoundError the guidance naming
\* the file is printed and no further exception is raised; when a split's
\* _generate_examples raises FileNotFoundError its file name is added to
\* files_to_create and the splits after it are processed.
C9_Original ==
    /\ (logs # << >> /\ logs[Len(logs)] = "print: make sure you create the file")
       => exc = ""
    /\ pc = "splits"
       => \A i \in 1..split_idx :
             splits[i] # "ok" => MissingFile(splits[i]) \in files_to_create
    /\ (~args.auto_generate /\ cfg_idx > 0 /\ mode_log[cfg_idx].done)
       => split_idx = Len(splits) /\ Len(split_names) = Len(splits)

=============================================================================
